---- MODULE Spec2Model ----
(***************************************************************************)
(* Model of the Bitcoin L2 TVL bot (src/main.py): the snapshot store       *)
(* (table tvl_snapshots), the change computation, the notable-event        *)
(* selection, and the two report handlers slack_commands and daily_post.   *)
(*                                                                         *)
(* Three specifications:                                                   *)
(*   Spec        the service: two request handlers running concurrently    *)
(*               over the shared table and the shared chart file, the      *)
(*               calendar day advancing between any two steps, the chains  *)
(*               API answering with distinct names and tvl >= 0;           *)
(*   SpecAnyApi  the same service whatever the chains API answers;         *)
(*   SpecCore    calculate_changes and get_notable_events applied to every *)
(*               bounded pair (current snapshot, snapshot stored the day   *)
(*               before or no stored snapshot).                            *)
(*                                                                         *)
(* The table exists (init_db has run).  home() and the usage reply of      *)
(* slack_commands change no state and are left out.  Each call a handler   *)
(* makes (the fetch, get_previous_snapshot, calculate_changes,             *)
(* save_snapshot, generate_chart, files_upload_v2) is one atomic step;     *)
(* the steps of the two handlers interleave.                               *)
(*                                                                         *)
(* TVL values are small integers.  A percentage (change / prev * 100) is   *)
(* kept as the exact fraction [num, den] with den > 0 and compared by      *)
(* cross-multiplication.  None is NoRank (0) for prev_rank, NoDate (0) for *)
(* prev_date, and the record NoPrevious for previous_data.                 *)
(***************************************************************************)
EXTENDS Integers, Sequences, FiniteSets, TLC

\* ------------------------------------------------------------------ bounds
\* Longest snapshot (current or stored) drawn in SpecCore.
MaxRecords == 4
\* TVL values SpecCore draws for a current list, and for a stored snapshot:
\* between them a 0 previous value (the guard prev['tvl'] > 0), an unchanged
\* value, gains of 50, 100 and 200 percent and losses of 25 and 50 percent.
CurrentTvls == {2, 3}
StoredTvls == {0, 1, 2, 4}
\* Last calendar day of Spec.
MaxDay == 2
\* Number of report requests Spec lets arrive.
MaxReports == 3
\* Most rows an API answer holds in Spec.
MaxApiRows == 2

\* ------------------------------------------------------- program constants
\* results[:10]
TopN == 10
\* events[:4]
MaxEvents == 4
\* get_previous_snapshot(days_ago=1)
DaysAgo == 1

\* ------------------------------------------------------------- primitives
NoRank == 0
NoDate == 0

Min(a, b) == IF a < b THEN a ELSE b

Range(s) == {s[i] : i \in 1..Len(s)}

Take(s, n) == SubSeq(s, 1, Min(n, Len(s)))

\* the empty name -> row mapping
EmptyRows == [n \in {} |-> [tvl |-> 0, rank |-> NoRank]]

\* previous_data is None
NoPrevious == [exists |-> FALSE, rows |-> EmptyRows]

\* change_pct = 0
ZeroPct == [num |-> 0, den |-> 1]

\* (change / prev_tvl) * 100, prev_tvl > 0
Pct(change, prev_tvl) == [num |-> change * 100, den |-> prev_tvl]

PctPos(p) == p.num > 0
PctNeg(p) == p.num < 0
\* p > q
PctGT(p, q) == p.num * q.den > q.num * p.den

\* ------------------------------------------------------- tracked entities
\* The allowlist bitcoin_l2s, in source order.
bitcoin_l2s == <<"Core", "Bitlayer", "Bsquared", "BOB", "Rootstock", "Merlin", "Stacks",
    "AILayer", "BounceBit", "MAP Protocol", "BEVM", "Liquid", "Lightning">>

\* ------------------------------------------------------------ the table
\* tvl_snapshots restricted to one date: chain_name -> (tvl_usd, rank); the
\* UNIQUE(snapshot_date, chain_name) constraint makes it a function.
Upsert(rows, name, row) ==
    [n \in (DOMAIN rows) \cup {name} |-> IF n = name THEN row ELSE rows[n]]

\* the loop of save_snapshot from position i on: one INSERT .. ON CONFLICT
\* DO UPDATE per entry, rank = position
RECURSIVE SaveRows(_, _, _)
SaveRows(rows, data, i) ==
    IF i > Len(data) THEN rows
    ELSE SaveRows(Upsert(rows, data[i].name, [tvl |-> data[i].tvl, rank |-> i]),
                  data, i + 1)

\* save_snapshot(data, snapshot_date) on table t (date -> rows)
save_snapshot(t, data, snapshot_date) ==
    [t EXCEPT ![snapshot_date] = SaveRows(t[snapshot_date], data, 1)]

\* Faulty variant of TargetDate: the lookback left out.
TargetDateIsToday(now, days_ago) == now

\* target_date = now - timedelta(days=days_ago)
TargetDate(now, days_ago) == now - days_ago

\* SELECT DISTINCT snapshot_date .. WHERE snapshot_date <= target
StoredDatesUpTo(t, target) ==
    {d \in DOMAIN t : d <= target /\ DOMAIN t[d] # {}}

MaxOf(S) == CHOOSE x \in S : \A y \in S : y <= x

\* get_previous_snapshot on table t when datetime.now().date() = now:
\* (prev_date, previous_data); float(tvl_usd) is exact on the model's integers
get_previous_snapshot(t, now) ==
    LET dates == StoredDatesUpTo(t, TargetDate(now, DaysAgo)) IN
    IF dates = {} THEN [prev_date |-> NoDate, previous_data |-> NoPrevious]
    ELSE [prev_date |-> MaxOf(dates),
          previous_data |-> [exists |-> TRUE, rows |-> t[MaxOf(dates)]]]

\* ------------------------------------------------------ calculate_changes
\* Python truthiness of previous_data: None and {} are both false
Truthy(previous) == previous.exists /\ DOMAIN previous.rows # {}

\* Faulty variant of IsNew: the "is not None" test left out.
IsNewWithoutNoneTest(previous, name) == name \notin DOMAIN previous.rows

\* previous_data is not None and name not in previous_data
IsNew(previous, name) == previous.exists /\ name \notin DOMAIN previous.rows

\* Faulty variant of RankChange: the subtraction the other way round.
RankChangeReversed(prev_rank, rank) == rank - prev_rank

\* rank_change = prev_rank - rank
RankChange(prev_rank, rank) == prev_rank - rank

\* the body of the loop of calculate_changes for the entry at position rank
ChangeRecord(rank, chain, previous) ==
    LET name == chain.name
        tvl == chain.tvl
        found == Truthy(previous) /\ name \in DOMAIN previous.rows
        prev == previous.rows[name]
    IN [name |-> name,
        tvl |-> tvl,
        rank |-> rank,
        change |-> IF found THEN tvl - prev.tvl ELSE 0,
        change_pct |-> IF found /\ prev.tvl > 0 THEN Pct(tvl - prev.tvl, prev.tvl)
                       ELSE ZeroPct,
        rank_change |-> IF found THEN RankChange(prev.rank, rank) ELSE 0,
        prev_rank |-> IF found THEN prev.rank ELSE NoRank,
        is_new |-> IsNew(previous, name)]

calculate_changes(current_data, previous_data) ==
    [i \in 1..Len(current_data) |-> ChangeRecord(i, current_data[i], previous_data)]

\* ----------------------------------------------------- get_notable_events
\* with_changes = [d for d in data if d['change'] != 0 or d['is_new']]
WithChanges(data) == SelectSeq(data, LAMBDA d : d.change # 0 \/ d.is_new)

\* gainers = [d for d in with_changes if d['change_pct'] > 0]
Gainers(data) == SelectSeq(WithChanges(data), LAMBDA d : PctPos(d.change_pct))

\* losers = [d for d in with_changes if d['change_pct'] < 0]
Losers(data) == SelectSeq(WithChanges(data), LAMBDA d : PctNeg(d.change_pct))

\* max(s, key=change_pct): the first element no other element exceeds
MaxByPct(s) ==
    LET i == CHOOSE i \in 1..Len(s) :
                 /\ \A j \in 1..Len(s) : ~PctGT(s[j].change_pct, s[i].change_pct)
                 /\ \A j \in 1..(i - 1) : PctGT(s[i].change_pct, s[j].change_pct)
    IN s[i]

\* min(s, key=change_pct): the first element that exceeds no other element
MinByPct(s) ==
    LET i == CHOOSE i \in 1..Len(s) :
                 /\ \A j \in 1..Len(s) : ~PctGT(s[i].change_pct, s[j].change_pct)
                 /\ \A j \in 1..(i - 1) : PctGT(s[j].change_pct, s[i].change_pct)
    IN s[i]

\* An event string, kept as its parts: kind, the entity named, the percentage
\* printed, and the number of spots printed (0 when no rank note is printed).
Event(kind, name, pct, spots) ==
    [kind |-> kind, name |-> name, pct |-> pct, spots |-> spots]

\* the BIGGEST GAINER line with its rank note
GainerEvents(data) ==
    IF Gainers(data) = <<>> THEN <<>>
    ELSE LET g == MaxByPct(Gainers(data)) IN
         <<Event("gainer", g.name, g.change_pct,
                 IF g.rank_change >= 2 THEN g.rank_change
                 ELSE IF g.rank_change = 1 THEN 1 ELSE 0)>>

\* the BIGGEST LOSER line
LoserEvents(data) ==
    IF Losers(data) = <<>> THEN <<>>
    ELSE LET l == MinByPct(Losers(data)) IN <<Event("loser", l.name, l.change_pct, 0)>>

\* one NEW TO TOP 10 line per new entry
NewEvents(data) ==
    LET new_entries == SelectSeq(data, LAMBDA d : d.is_new) IN
    [i \in 1..Len(new_entries) |-> Event("new", new_entries[i].name, ZeroPct, 0)]

\* the record the jump loop leaves out:
\* mover['name'] != (gainers[0]['name'] if gainers else None)
SkippedMover(data, mover) ==
    Gainers(data) # <<>> /\ mover.name = Gainers(data)[1].name

\* one "jumped N spots" line per big mover that is not left out
JumpEvents(data) ==
    LET big_movers == SelectSeq(data, LAMBDA d : d.rank_change >= 2)
        kept == SelectSeq(big_movers, LAMBDA m : ~SkippedMover(data, m))
    IN [i \in 1..Len(kept) |-> Event("jump", kept[i].name, ZeroPct, kept[i].rank_change)]

\* the list events as it stands when get_notable_events reaches a return
BuiltEvents(data) ==
    IF WithChanges(data) = <<>> THEN <<>>
    ELSE GainerEvents(data) \o LoserEvents(data) \o NewEvents(data) \o JumpEvents(data)

\* Faulty variant of Truncate: the slice one too long.
TruncateOneTooMany(events) == Take(events, MaxEvents + 1)

\* events[:4]
Truncate(events) == Take(events, MaxEvents)

get_notable_events(data) ==
    IF WithChanges(data) = <<>> THEN <<>> ELSE Truncate(BuiltEvents(data))

\* --------------------------------------------------------------- variables
VARIABLES
    coreCurrent,    \* SpecCore: current_data handed to calculate_changes
    corePrevious,   \* SpecCore: previous_data handed to calculate_changes
    coreRecords,    \* SpecCore: the result of calculate_changes
    coreEvents,     \* SpecCore: the result of get_notable_events
    corePc          \* SpecCore: "input", "changes", "events"

coreVars == <<coreCurrent, corePrevious, coreRecords, coreEvents, corePc>>

VARIABLES
    table,              \* tvl_snapshots: snapshot_date -> chain_name -> (tvl_usd, rank)
    today,              \* datetime.now().date()
    png,                \* the file btc_l2_tvl.png: what it was rendered from
    arrived,            \* number of report requests received so far
    pc,                 \* per handler: the call it is about to make
    steps,              \* per handler, history: the steps of its cycle that completed
    current_data,       \* per handler: local current_data
    now_prev,           \* per handler: datetime.now().date() read by get_previous_snapshot
    same_day_rows,      \* per handler, history: today had stored rows at that read
    prev_date,          \* per handler: local prev_date
    previous_data,      \* per handler: local previous_data
    data_with_changes,  \* per handler: local data_with_changes
    delivered           \* per handler, history: whose chart files_upload_v2 sent

sysVars == <<table, today, png, arrived, pc, steps, current_data, now_prev,
             same_day_rows, prev_date, previous_data, data_with_changes, delivered>>

vars == <<coreVars, sysVars>>

\* ---------------------------------------------------------------- SpecCore
\* non-increasing sequences of n values of V: a list sorted by tvl, descending
ValueSeqs(n, V) ==
    {v \in [1..n -> V] : \A i \in 1..(n - 1) : v[i] >= v[i + 1]}

\* The sorted value lists of a stored snapshot, by length.
StoredValueSeqs == [m \in 1..MaxRecords |-> ValueSeqs(m, StoredTvls)]

\* Who holds each of the m places of a stored snapshot, relative to a current
\* list of n entities: place i holds current entity w[i], or (w[i] = 0) an
\* entity that is not in the current list.  calculate_changes looks up the
\* current names only, so the places below the last current entity add no
\* case: the last place holds a current entity, or the snapshot is a single
\* outside entity.
Holders(m, n) ==
    {w \in [1..m -> 0..n] :
        /\ \A i, j \in 1..m : (i # j /\ w[i] # 0) => w[i] # w[j]
        /\ w[m] # 0 \/ m = 1}

\* Holders(m, n) for every m and n, computed once.
HoldersTable == [m \in 1..MaxRecords |-> [n \in 0..MaxRecords |-> Holders(m, n)]]

\* The stored snapshot with holders w and values v.  An entity outside the
\* current list is never looked up by calculate_changes, so the k-th of them
\* is named by the k-th allowlist name past MaxRecords.
StoredSnapshot(w, v) ==
    [i \in 1..Len(w) |->
        [name |-> IF w[i] # 0 THEN bitcoin_l2s[w[i]]
                  ELSE bitcoin_l2s[MaxRecords + Cardinality({j \in 1..i : w[j] = 0})],
         tvl |-> v[i]]]

\* ... and its tvl repeats the tvl one place above it (the largest value at
\* the top), which keeps the list sorted without adding cases.
OutsideValuesFixed(w, v) ==
    \A i \in 1..Len(w) :
        w[i] = 0 => v[i] = (IF i = 1 THEN MaxOf(StoredTvls) ELSE v[i - 1])

Snapshot(names, values) ==
    [i \in 1..Len(names) |-> [name |-> names[i], tvl |-> values[i]]]

\* A table holding nothing.
EmptyTable(dates) == [d \in dates |-> EmptyRows]

\* previous_data as the store returns it on day 2 for a snapshot saved on day 1
StoredPrevious(snapshot) ==
    get_previous_snapshot(save_snapshot(EmptyTable({1}), snapshot, 1), 2).previous_data

\* ------------------------------------------------------------ the service
\* The two report handlers.
Handlers == {"slack_commands", "daily_post"}

Days == 1..MaxDay

\* No file content.
NoFile == [written |-> FALSE, data |-> <<>>, events |-> <<>>]

\* What the chains API can answer: up to MaxApiRows rows, in any order, of
\* tracked and untracked chains; a chain may appear twice and a tvl may be
\* negative.  No answer has more than TopN tracked rows, so results[:10]
\* drops nothing here.
ApiRows ==
    {[name |-> "Core", tvl |-> 2],
     [name |-> "Bitlayer", tvl |-> 1], [name |-> "Bitlayer", tvl |-> -1],
     [name |-> "Ethereum", tvl |-> 1]}
ApiResponses == UNION {[1..n -> ApiRows] : n \in 0..MaxApiRows}

\* results.sort(key=tvl, reverse=True): stable, equal tvls keep their order
RECURSIVE SortDesc(_)
SortDesc(s) ==
    IF s = <<>> THEN <<>>
    ELSE LET rest == SortDesc(SubSeq(s, 1, Len(s) - 1))
             x == s[Len(s)]
             k == Cardinality({i \in 1..Len(rest) : rest[i].tvl >= x.tvl})
         IN SubSeq(rest, 1, k) \o <<x>> \o SubSeq(rest, k + 1, Len(rest))

\* get_bitcoin_l2_tvl on the API answer data
get_bitcoin_l2_tvl(data) ==
    Take(SortDesc(SelectSeq(data, LAMBDA chain : chain.name \in Range(bitcoin_l2s))), TopN)

\* A list that is no snapshot in the specification's sense: a name twice, or
\* a negative value.  The code has no such test; the predicate only
\* separates the API answers of Spec from those of SpecAnyApi.
Malformed(data) ==
    \/ \E i, j \in 1..Len(data) : i # j /\ data[i].name = data[j].name
    \/ \E i \in 1..Len(data) : data[i].tvl < 0

\* Faulty variant of After: the snapshot is saved before the changes are computed.
AfterSavingFirst(p) ==
    CASE p = "prev" -> "save"
      [] p = "save" -> "calc"
      [] p = "calc" -> "chart"
      [] p = "chart" -> "upload"
      [] p = "upload" -> "idle"

\* The call a handler makes after the call at position p returned.
After(p) ==
    CASE p = "prev" -> "calc"
      [] p = "calc" -> "save"
      [] p = "save" -> "chart"
      [] p = "chart" -> "upload"
      [] p = "upload" -> "idle"

SysInit ==
    /\ table = EmptyTable(Days)
    /\ today = 1
    /\ png = NoFile
    /\ arrived = 0
    /\ pc = [r \in Handlers |-> "idle"]
    /\ steps = [r \in Handlers |-> <<>>]
    /\ delivered = [r \in Handlers |-> "nothing"]
    /\ current_data = [r \in Handlers |-> <<>>]
    /\ now_prev = [r \in Handlers |-> NoDate]
    /\ same_day_rows = [r \in Handlers |-> FALSE]
    /\ prev_date = [r \in Handlers |-> NoDate]
    /\ previous_data = [r \in Handlers |-> NoPrevious]
    /\ data_with_changes = [r \in Handlers |-> <<>>]

\* The handler returns: its locals are gone.
DropLocals(r) ==
    /\ current_data' = [current_data EXCEPT ![r] = <<>>]
    /\ now_prev' = [now_prev EXCEPT ![r] = NoDate]
    /\ same_day_rows' = [same_day_rows EXCEPT ![r] = FALSE]
    /\ prev_date' = [prev_date EXCEPT ![r] = NoDate]
    /\ previous_data' = [previous_data EXCEPT ![r] = NoPrevious]
    /\ data_with_changes' = [data_with_changes EXCEPT ![r] = <<>>]

\* The API answers in which every chain appears once, with a tvl >= 0.
SoundApiResponses == {data \in ApiResponses : ~Malformed(data)}

\* What get_bitcoin_l2_tvl() can return while the API answers soundly, and
\* whatever the API answers.
SoundResults == {get_bitcoin_l2_tvl(data) : data \in SoundApiResponses}
AnyResults == {get_bitcoin_l2_tvl(data) : data \in ApiResponses}

\* A request arrives at handler r and current_data = get_bitcoin_l2_tvl()
\* returns one of results.
Fetch(r, results) ==
    /\ pc[r] = "idle"
    /\ arrived < MaxReports
    /\ arrived' = arrived + 1
    /\ \E result \in results :
         current_data' = [current_data EXCEPT ![r] = result]
    /\ pc' = [pc EXCEPT ![r] = "prev"]
    /\ steps' = [steps EXCEPT ![r] = <<"fetch">>]
    /\ delivered' = [delivered EXCEPT ![r] = "nothing"]
    /\ UNCHANGED <<table, today, png, now_prev, same_day_rows, prev_date, previous_data,
                   data_with_changes, coreVars>>

\* A request arrives at handler r and get_bitcoin_l2_tvl() raises (network or
\* parse failure): the except clause returns the error response.
FetchFails(r) ==
    /\ pc[r] = "idle"
    /\ arrived < MaxReports
    /\ arrived' = arrived + 1
    /\ steps' = [steps EXCEPT ![r] = <<"fetch failed">>]
    /\ delivered' = [delivered EXCEPT ![r] = "nothing"]
    /\ UNCHANGED <<table, today, png, pc, current_data, now_prev,
                   same_day_rows, prev_date, previous_data, data_with_changes, coreVars>>

\* prev_date, previous_data = get_previous_snapshot(days_ago=1)
PrevSnapshot(r) ==
    /\ pc[r] = "prev"
    /\ now_prev' = [now_prev EXCEPT ![r] = today]
    /\ same_day_rows' = [same_day_rows EXCEPT ![r] = (DOMAIN table[today] # {})]
    /\ prev_date' = [prev_date EXCEPT ![r] = get_previous_snapshot(table, today).prev_date]
    /\ previous_data' =
           [previous_data EXCEPT ![r] = get_previous_snapshot(table, today).previous_data]
    /\ pc' = [pc EXCEPT ![r] = After("prev")]
    /\ steps' = [steps EXCEPT ![r] = Append(@, "prev")]
    /\ UNCHANGED <<table, today, png, arrived, delivered, current_data,
                   data_with_changes, coreVars>>

\* data_with_changes = calculate_changes(current_data, previous_data)
Changes(r) ==
    /\ pc[r] = "calc"
    /\ data_with_changes' =
           [data_with_changes EXCEPT ![r] = calculate_changes(current_data[r], previous_data[r])]
    /\ pc' = [pc EXCEPT ![r] = After("calc")]
    /\ steps' = [steps EXCEPT ![r] = Append(@, "compute")]
    /\ UNCHANGED <<table, today, png, arrived, delivered, current_data,
                   now_prev, same_day_rows, prev_date, previous_data, coreVars>>

\* save_snapshot(current_data): snapshot_date = datetime.now().date()
Save(r) ==
    /\ pc[r] = "save"
    /\ table' = save_snapshot(table, current_data[r], today)
    /\ pc' = [pc EXCEPT ![r] = After("save")]
    /\ steps' = [steps EXCEPT ![r] = Append(@, "persist")]
    /\ UNCHANGED <<today, png, arrived, delivered, current_data, now_prev,
                   same_day_rows, prev_date, previous_data, data_with_changes, coreVars>>

\* chart_file = generate_chart(data_with_changes): get_notable_events, then
\* plt.savefig("btc_l2_tvl.png")
Chart(r) ==
    /\ pc[r] = "chart"
    /\ png' = [written |-> TRUE, data |-> data_with_changes[r],
               events |-> get_notable_events(data_with_changes[r])]
    /\ pc' = [pc EXCEPT ![r] = After("chart")]
    /\ steps' = [steps EXCEPT ![r] = @ \o <<"select_events", "render">>]
    /\ UNCHANGED <<table, today, arrived, delivered, current_data, now_prev,
                   same_day_rows, prev_date, previous_data, data_with_changes, coreVars>>

\* slack_client.files_upload_v2(file=chart_file) sends what the file holds
\* now, and the handler returns.
Upload(r) ==
    /\ pc[r] = "upload"
    /\ delivered' = [delivered EXCEPT ![r] =
           IF png.data = data_with_changes[r] THEN "own chart" ELSE "other chart"]
    /\ pc' = [pc EXCEPT ![r] = After("upload")]
    /\ steps' = [steps EXCEPT ![r] = Append(@, "deliver")]
    /\ DropLocals(r)
    /\ UNCHANGED <<table, today, png, arrived, coreVars>>

\* A database call, the rendering or the Slack upload raises: the except
\* clause returns the error response.
AdapterFails(r) ==
    /\ pc[r] \in {"prev", "save", "chart", "upload"}
    /\ pc' = [pc EXCEPT ![r] = "idle"]
    /\ DropLocals(r)
    /\ UNCHANGED <<table, today, png, arrived, steps, delivered, coreVars>>

\* Midnight passes.
Tick ==
    /\ today < MaxDay
    /\ today' = today + 1
    /\ UNCHANGED <<table, png, arrived, pc, steps, delivered, current_data,
                   now_prev, same_day_rows, prev_date, previous_data, data_with_changes,
                   coreVars>>

Init ==
    /\ SysInit
    /\ coreCurrent = <<>>
    /\ corePrevious = NoPrevious
    /\ coreRecords = <<>>
    /\ coreEvents = <<>>
    /\ corePc = "off"

\* Everything but the arrival of a request with a successful fetch.
Rest ==
    \/ \E r \in Handlers : FetchFails(r)
    \/ \E r \in Handlers : PrevSnapshot(r)
    \/ \E r \in Handlers : Changes(r)
    \/ \E r \in Handlers : Save(r)
    \/ \E r \in Handlers : Chart(r)
    \/ \E r \in Handlers : Upload(r)
    \/ \E r \in Handlers : AdapterFails(r)
    \/ Tick

\* The service while the API answers soundly.
Next ==
    \/ \E r \in Handlers : Fetch(r, SoundResults)
    \/ Rest

Spec == Init /\ [][Next]_vars

\* The service whatever the API answers.
NextAnyApi ==
    \/ \E r \in Handlers : Fetch(r, AnyResults)
    \/ Rest

SpecAnyApi == Init /\ [][NextAnyApi]_vars

\* Inputs.  current is a list sorted by tvl; entity names only matter up to
\* equality, so current names its entities in allowlist order.  previous is
\* None, an empty mapping, or what the store returns for a sorted snapshot.
InitCore ==
    /\ \E n \in 0..MaxRecords : \E c \in ValueSeqs(n, CurrentTvls) :
         /\ coreCurrent = Snapshot(Take(bitcoin_l2s, n), c)
         /\ \/ corePrevious = NoPrevious
            \/ corePrevious = [exists |-> TRUE, rows |-> EmptyRows]
            \/ \E m \in 1..MaxRecords : \E w \in HoldersTable[m][n] :
                 \E v \in StoredValueSeqs[m] :
                   /\ OutsideValuesFixed(w, v)
                   /\ corePrevious = StoredPrevious(StoredSnapshot(w, v))
    /\ coreRecords = <<>>
    /\ coreEvents = <<>>
    /\ corePc = "input"
    /\ SysInit

CoreChanges ==
    /\ corePc = "input"
    /\ coreRecords' = calculate_changes(coreCurrent, corePrevious)
    /\ corePc' = "changes"
    /\ UNCHANGED <<coreCurrent, corePrevious, coreEvents, sysVars>>

CoreEvents ==
    /\ corePc = "changes"
    /\ coreEvents' = get_notable_events(coreRecords)
    /\ corePc' = "events"
    /\ UNCHANGED <<coreCurrent, corePrevious, coreRecords, sysVars>>

NextCore == CoreChanges \/ CoreEvents

SpecCore == InitCore /\ [][NextCore]_vars

\* ------------------------------------------------- properties of the core
\* The names of the entities of a list of records or of snapshot entries.
NamesOf(s) == {s[i].name : i \in 1..Len(s)}

\* The biggest gainer as the specification words it: among the records with
\* a positive percentage delta, the first one in rank order that none exceeds.
PositiveIdx(data) == {i \in 1..Len(data) : PctPos(data[i].change_pct)}
NegativeIdx(data) == {i \in 1..Len(data) : PctNeg(data[i].change_pct)}

BiggestGainerIdx(data) ==
    CHOOSE i \in PositiveIdx(data) :
        /\ \A j \in PositiveIdx(data) : ~PctGT(data[j].change_pct, data[i].change_pct)
        /\ \A j \in PositiveIdx(data) :
               j < i => PctGT(data[i].change_pct, data[j].change_pct)

BiggestLoserIdx(data) ==
    CHOOSE i \in NegativeIdx(data) :
        /\ \A j \in NegativeIdx(data) : ~PctGT(data[i].change_pct, data[j].change_pct)
        /\ \A j \in NegativeIdx(data) :
               j < i => PctGT(data[j].change_pct, data[i].change_pct)

\* (name, spots) of the jump events of an event list, in order
JumpsOf(events) ==
    LET js == SelectSeq(events, LAMBDA e : e.kind = "jump") IN
    [i \in 1..Len(js) |-> <<js[i].name, js[i].spots>>]

\* (name, spots) of the jump events the specification asks for: every record
\* with rank delta >= 2 except the biggest gainer, in rank order
SpecifiedJumps(data) ==
    LET movers == SelectSeq(data, LAMBDA d :
                      /\ d.rank_change >= 2
                      /\ ~(PositiveIdx(data) # {} /\ d.rank = BiggestGainerIdx(data)))
    IN [i \in 1..Len(movers) |-> <<movers[i].name, movers[i].rank_change>>]

\* C1: the event list never names one entity both in the biggest-gainer
\* event and in a "jumped N spots" event.
C1_NoGainerJumpDuplicate ==
    corePc = "events" =>
        \A i, j \in 1..Len(coreEvents) :
            ~(/\ coreEvents[i].kind = "gainer"
              /\ coreEvents[j].kind = "jump"
              /\ coreEvents[i].name = coreEvents[j].name)

\* C2: the untruncated event list holds a jump event for exactly the records
\* with rank delta >= 2 other than the biggest gainer, in current-rank order.
C2_JumpEventsAsSpecified ==
    corePc # "input" =>
        JumpsOf(BuiltEvents(coreRecords)) = SpecifiedJumps(coreRecords)

\* The gainer, loser and new-entrant events the specification asks for,
\* concatenated in that order.
SpecifiedHead(data) ==
    LET news == SelectSeq(data, LAMBDA d : d.is_new) IN
    (IF PositiveIdx(data) = {} THEN <<>>
     ELSE LET g == data[BiggestGainerIdx(data)] IN
          <<[kind |-> "gainer", name |-> g.name, pct |-> g.change_pct,
             spots |-> IF g.rank_change >= 2 THEN g.rank_change
                       ELSE IF g.rank_change = 1 THEN 1 ELSE 0]>>)
    \o (IF NegativeIdx(data) = {} THEN <<>>
        ELSE LET l == data[BiggestLoserIdx(data)] IN
             <<[kind |-> "loser", name |-> l.name, pct |-> l.change_pct, spots |-> 0]>>)
    \o [i \in 1..Len(news) |->
           [kind |-> "new", name |-> news[i].name, pct |-> ZeroPct, spots |-> 0]]

\* The rank of the record an event names.
RankOfName(data, name) == CHOOSE r \in 1..Len(data) : data[r].name = name

\* C4: the output has at most 4 events and is what is left of
\* [gainer, loser, new entrants in rank order, jumps in rank order] when
\* events are dropped from the end only: it starts with the first 4 of the
\* gainer/loser/new-entrant events, anything after them is a jump event of a
\* record with rank delta >= 2, in rank order, it is the first 4 of the list
\* the function built, and an empty record list gives an empty output.
C4_OrderedPrefixOfAtMostFour ==
    corePc = "events" =>
        LET out == coreEvents
            head == SpecifiedHead(coreRecords)
            h == Min(Len(head), 4)
        IN /\ Len(out) <= 4
           /\ Len(out) >= h
           /\ SubSeq(out, 1, h) = SubSeq(head, 1, h)
           /\ \A i \in (h + 1)..Len(out) :
                  /\ out[i].kind = "jump"
                  /\ out[i].name \in NamesOf(coreRecords)
                  /\ LET d == coreRecords[RankOfName(coreRecords, out[i].name)] IN
                         d.rank_change >= 2 /\ out[i].spots = d.rank_change
                  /\ \A j \in (h + 1)..(i - 1) :
                         RankOfName(coreRecords, out[j].name)
                             < RankOfName(coreRecords, out[i].name)
           /\ out = SubSeq(BuiltEvents(coreRecords), 1, Len(out))
           /\ (Len(out) < 4 => out = BuiltEvents(coreRecords))
           /\ (coreRecords = <<>> => out = <<>>)

\* C4 witness: five events were built (gainer, loser, new entrants, a jump)
\* and the output is the first four of them.
C4_Witness ==
    /\ corePc = "events"
    /\ Len(BuiltEvents(coreRecords)) > 4
    /\ Len(coreEvents) = 4
    /\ coreEvents[1].kind = "gainer"
    /\ coreEvents[2].kind = "loser"
    /\ BuiltEvents(coreRecords)[5].kind = "jump"

\* C5: a record is flagged new exactly when previous exists (an empty mapping
\* included) and lacks the name; with previous absent every record has zero
\* deltas, no previous rank and no new flag, and no event is selected.
C5_NewEntrantOnlyAgainstExistingPrevious ==
    corePc # "input" =>
        /\ \A i \in 1..Len(coreRecords) :
               coreRecords[i].is_new
                   <=> (/\ corePrevious.exists
                        /\ coreRecords[i].name \notin DOMAIN corePrevious.rows)
        /\ ~corePrevious.exists =>
               /\ \A i \in 1..Len(coreRecords) :
                      /\ coreRecords[i].change = 0
                      /\ coreRecords[i].change_pct = ZeroPct
                      /\ coreRecords[i].rank_change = 0
                      /\ coreRecords[i].prev_rank = NoRank
                      /\ ~coreRecords[i].is_new
               /\ (corePc = "events" => coreEvents = <<>>)

\* C5 witness: events were selected for records computed against an existing
\* but empty previous mapping, which flags every record new.
C5_Witness ==
    /\ corePc = "events"
    /\ corePrevious.exists
    /\ DOMAIN corePrevious.rows = {}
    /\ Len(coreRecords) >= 2
    /\ \A i \in 1..Len(coreRecords) : coreRecords[i].is_new
    /\ Len(coreEvents) >= 2

\* C6: one record per current entity, in order, rank = 1 + position; for an
\* entity also in previous, value delta = current - previous value, rank
\* delta = previous rank - current rank, percentage delta 0 when the previous
\* value is 0 (and change / previous * 100 otherwise); an entity only in
\* previous has no record.
C6_RecordsFollowCurrent ==
    corePc # "input" =>
        /\ Len(coreRecords) = Len(coreCurrent)
        /\ \A i \in 1..Len(coreRecords) :
               LET r == coreRecords[i]
                   rows == corePrevious.rows IN
               /\ r.name = coreCurrent[i].name
               /\ r.tvl = coreCurrent[i].tvl
               /\ r.rank = i
               /\ r.name \in DOMAIN rows =>
                      /\ r.change = coreCurrent[i].tvl - rows[r.name].tvl
                      /\ r.prev_rank = rows[r.name].rank
                      /\ r.rank_change = rows[r.name].rank - i
                      /\ (rows[r.name].tvl = 0 => r.change_pct = ZeroPct)
                      /\ (rows[r.name].tvl > 0 =>
                             r.change_pct.num * rows[r.name].tvl
                                 = r.change * 100 * r.change_pct.den)
        /\ \A n \in (DOMAIN corePrevious.rows) \ NamesOf(coreCurrent) :
               n \notin NamesOf(coreRecords)

\* C6 witness: records were computed where one entity moved from rank 3 to
\* rank 1, one had a previous value of 0 and a positive current value, and
\* one entity of previous is not in current.
C6_Witness ==
    /\ corePc = "changes"
    /\ \E i \in 1..Len(coreRecords) :
           coreRecords[i].prev_rank = 3 /\ coreRecords[i].rank = 1
               /\ coreRecords[i].rank_change = 2
    /\ \E i \in 1..Len(coreRecords) :
           /\ coreRecords[i].name \in DOMAIN corePrevious.rows
           /\ corePrevious.rows[coreRecords[i].name].tvl = 0
           /\ coreRecords[i].change > 0
    /\ (DOMAIN corePrevious.rows) \ NamesOf(coreCurrent) # {}

\* --------------------------------------------- properties of the service
IsPrefix(s, t) == Len(s) <= Len(t) /\ s = SubSeq(t, 1, Len(s))

\* The handlers that hold a baseline: get_previous_snapshot has returned.
HasBaseline(r) == pc[r] \in {"calc", "save", "chart", "upload"}

\* C3: a current list with a duplicate name or a negative value is rejected:
\* no records are computed for it and save_snapshot is not executed.
C3_MalformedSnapshotRejected ==
    \A r \in Handlers :
        Malformed(current_data[r]) =>
            /\ data_with_changes[r] = <<>>
            /\ "compute" \notin Range(steps[r])
            /\ "persist" \notin Range(steps[r])

ClaimedOrder ==
    <<"fetch", "prev", "compute", "select_events", "persist", "render", "deliver">>

\* The order of the steps of a report in slack_commands and daily_post:
\* events are selected inside generate_chart, after save_snapshot.
CodeOrder ==
    <<"fetch", "prev", "compute", "persist", "select_events", "render", "deliver">>

C9_StoredRowsFormSnapshot ==
    \A d \in Days :
        LET rows == table[d]
            n == Cardinality(DOMAIN rows) IN
        /\ n <= TopN
        /\ {rows[x].rank : x \in DOMAIN rows} = 1..n

\* C10: the chart a report delivers was rendered from its own change records.
C10_DeliversOwnChart ==
    \A r \in Handlers : delivered[r] # "other chart"

====
